---- MODULE Spec2Model ----
(***************************************************************************)
(* Image to PDF converter: the App component's session state (status,      *)
(* files, options, pdfBlobUrl), its handlers, and the asynchronous         *)
(* handleConvert pipeline with one step per await.                         *)
(***************************************************************************)
EXTENDS Integers, Sequences, FiniteSets, TLC

\* ---- bounds ----
MaxFiles == 3   \* most files handed over by one add-files action
MaxUrls == 2    \* most object URLs created in one behaviour
MaxImgSteps == 16   \* image widths and heights are 50, 100, ... 50 * MaxImgSteps pixels

\* ---- program enumerations ----
SupportedTypes == {"image/png", "image/jpeg", "image/webp"}
FileTypes == SupportedTypes \cup {"image/gif"}
PageSizes == {"a4", "letter", "a3", "a5"}
Orientations == {"portrait", "landscape"}
ImageFits == {"fit", "original", "fill"}
OptionKeys == {"pageSize", "orientation", "imageFit"}

OptionValues(key) ==
    CASE key = "pageSize" -> PageSizes
      [] key = "orientation" -> Orientations
      [] key = "imageFit" -> ImageFits

DefaultOptions == [pageSize |-> "a4", orientation |-> "portrait", imageFit |-> "fit"]

NoUrl == 0
NoPdf == [orientation |-> "none", format |-> "none", pages |-> <<>>]

NoCall == [imgWidth |-> 0, imgHeight |-> 0, pageSize |-> "none",
           orientation |-> "none", imageFit |-> "none"]

\* ---- JavaScript numbers ----
\* A positive dyadic number is [b |-> bits, most significant first, e |-> n]:
\* the natural number written by b, times 2^e.  A JavaScript number (IEEE 754
\* binary64) is such a number with exactly 53 bits, the first of them 1.
\* Every number calculateImageDimensions handles is positive and normal.
Precision == 53

Zeros(n) == [k \in 1..n |-> 0]

\* numbers are handled Chunk bits at a time
Chunk == 8
Radix == 256

ChunkBits(v) == [j \in 1..Chunk |-> (v \div 2^(Chunk - j)) % 2]

ChunkVal(b, k) ==
    b[k] * 128 + b[k + 1] * 64 + b[k + 2] * 32 + b[k + 3] * 16
      + b[k + 4] * 8 + b[k + 5] * 4 + b[k + 6] * 2 + b[k + 7]

Padded(b) == Zeros((Chunk - (Len(b) % Chunk)) % Chunk) \o b

Strip(b) ==
    LET ones == {k \in 1..Len(b) : b[k] = 1} IN
    IF ones = {} THEN <<>>
    ELSE SubSeq(b, CHOOSE k \in ones : \A j \in ones : k <= j, Len(b))

NatBits(n) == Strip([j \in 1..31 |-> (n \div 2^(31 - j)) % 2])

Num(n) == [b |-> NatBits(n), e |-> 0]

\* both numbers written with the same exponent and the same number of bits
Aligned(x, y) ==
    LET e0 == IF x.e < y.e THEN x.e ELSE y.e
        xb == x.b \o Zeros(x.e - e0)
        yb == y.b \o Zeros(y.e - e0)
        n == IF Len(xb) < Len(yb) THEN Len(yb) ELSE Len(xb)
    IN [e |-> e0, x |-> Zeros(n - Len(xb)) \o xb, y |-> Zeros(n - Len(yb)) \o yb]

\* -1, 0 or 1 as x is less than, equal to or greater than y
NCmp(x, y) ==
    LET a == Aligned(x, y)
        diff == {k \in 1..Len(a.x) : a.x[k] # a.y[k]}
    IN IF diff = {} THEN 0
       ELSE LET k == CHOOSE k \in diff : \A j \in diff : k <= j
            IN IF a.x[k] < a.y[k] THEN -1 ELSE 1

NLe(x, y) == NCmp(x, y) <= 0
NEq(x, y) == NCmp(x, y) = 0

\* the bits from k on of xb + yb + carry (of xb - yb, of xb * n), with the
\* carry (borrow) that leaves them; k is the first bit of a chunk
RECURSIVE AddFrom(_, _, _, _)
AddFrom(xb, yb, k, carry) ==
    IF k > Len(xb) THEN [s |-> <<>>, c |-> carry]
    ELSE LET p == AddFrom(xb, yb, k + Chunk, carry)
             t == ChunkVal(xb, k) + ChunkVal(yb, k) + p.c
         IN [s |-> ChunkBits(t % Radix) \o p.s, c |-> t \div Radix]

RECURSIVE SubFrom(_, _, _)
SubFrom(xb, yb, k) ==
    IF k > Len(xb) THEN [s |-> <<>>, c |-> 0]
    ELSE LET p == SubFrom(xb, yb, k + Chunk)
             t == ChunkVal(xb, k) - ChunkVal(yb, k) - p.c
         IN IF t < 0 THEN [s |-> ChunkBits(t + Radix) \o p.s, c |-> 1]
                     ELSE [s |-> ChunkBits(t) \o p.s, c |-> 0]

RECURSIVE MulFrom(_, _, _)
MulFrom(xb, k, n) ==
    IF k > Len(xb) THEN [s |-> <<>>, c |-> 0]
    ELSE LET p == MulFrom(xb, k + Chunk, n)
             t == n * ChunkVal(xb, k) + p.c
         IN [s |-> ChunkBits(t % Radix) \o p.s, c |-> t \div Radix]

\* quotient bits and remainder of the bits of xb before k divided by d
RECURSIVE DivTo(_, _, _)
DivTo(xb, k, d) ==
    IF k = 1 THEN [q |-> <<>>, r |-> 0]
    ELSE LET p == DivTo(xb, k - Chunk, d)
             t == Radix * p.r + ChunkVal(xb, k - Chunk)
         IN [q |-> p.q \o ChunkBits(t \div d), r |-> t % d]

\* exact sum, difference (x >= y), product with a natural number, x * 2^k
NAdd(x, y) ==
    LET a == Aligned(x, y)
        p == AddFrom(Padded(a.x), Padded(a.y), 1, 0)
    IN [b |-> <<p.c>> \o p.s, e |-> a.e]
NSub(x, y) ==
    LET a == Aligned(x, y)
    IN [b |-> SubFrom(Padded(a.x), Padded(a.y), 1).s, e |-> a.e]
NMulInt(x, n) ==
    LET p == MulFrom(Padded(x.b), 1, n) IN [b |-> NatBits(p.c) \o p.s, e |-> x.e]
NShift(x, k) == [b |-> x.b, e |-> x.e + k]
NAbsDiff(x, y) == IF NLe(x, y) THEN NSub(y, x) ELSE NSub(x, y)

\* x / d to g further bits, with a last bit that is 1 when anything nonzero
\* was cut off: with more than Precision + 1 significant bits before that
\* last bit, it rounds as the exact quotient does
NDivInt(x, d, g) ==
    LET xb == Padded(x.b \o Zeros(g))
        p == DivTo(xb, Len(xb) + 1, d)
    IN [b |-> Append(p.q, IF p.r = 0 THEN 0 ELSE 1), e |-> x.e - g - 1]

\* round to nearest, ties to even (the rounding of every IEEE 754 operation)
Round(x) ==
    LET b == Strip(x.b)
        n == Len(b)
    IN IF n <= Precision
         THEN [b |-> b \o Zeros(Precision - n), e |-> x.e - (Precision - n)]
         ELSE LET head == SubSeq(b, 1, Precision)
                  guard == b[Precision + 1]
                  sticky == \E k \in (Precision + 2)..n : b[k] = 1
                  up == guard = 1 /\ (sticky \/ head[Precision] = 1)
                  inc == Strip(NAdd([b |-> head, e |-> 0], Num(1)).b)
              IN IF ~up THEN [b |-> head, e |-> x.e + (n - Precision)]
                 ELSE IF Len(inc) > Precision
                 THEN [b |-> SubSeq(inc, 1, Precision), e |-> x.e + (n - Precision) + 1]
                 ELSE [b |-> inc, e |-> x.e + (n - Precision)]

\* the JavaScript operators on numbers
Number(n) == Round(Num(n))
Literal(n, d) == Round(NDivInt(Num(n), d, 64))        \* the decimal literal n/d
Minus(x, y) == Round(NSub(x, y))                      \* x - y, for x > y
TimesInt(x, n) == Round(NMulInt(x, n))                \* x * n, n an integer
OverInt(x, n) == Round(NDivInt(x, n, 16))             \* x / n, n an integer < 2^14
Halved(x) == NShift(x, -1)                            \* x / 2
MathMax(x, y) == IF NLe(x, y) THEN y ELSE x

MathMin(x, y) == IF NLe(x, y) THEN x ELSE y

\* ---- calculateImageDimensions ----
margin == 10
PixelToMm == Literal(176389, 500000)                  \* 0.352778

CentredNotHalved(page, size) == Minus(page, size)

Centred(page, size) == Halved(Minus(page, size))

calculateImageDimensions(imgWidth, imgHeight, pageWidth, pageHeight, imageFit) ==
    LET availableWidth == Minus(pageWidth, Number(margin * 2))
        availableHeight == Minus(pageHeight, Number(margin * 2))
    IN CASE imageFit = "fit" ->
              LET scaleX == OverInt(availableWidth, imgWidth)
                  scaleY == OverInt(availableHeight, imgHeight)
                  scale == MathMin(scaleX, scaleY)
                  width == TimesInt(scale, imgWidth)
                  height == TimesInt(scale, imgHeight)
              IN [width |-> width, height |-> height,
                  x |-> Centred(pageWidth, width), y |-> Centred(pageHeight, height)]
         [] imageFit = "fill" ->
              [width |-> availableWidth, height |-> availableHeight,
               x |-> Number(margin), y |-> Number(margin)]
         [] imageFit = "original" ->
              LET width == MathMin(TimesInt(PixelToMm, imgWidth), availableWidth)
                  height == MathMin(TimesInt(PixelToMm, imgHeight), availableHeight)
              IN [width |-> width, height |-> height,
                  x |-> Centred(pageWidth, width), y |-> Centred(pageHeight, height)]

\* the page size jsPDF reports, in mm, for a format and an orientation
PageFormat(pageSize) ==
    CASE pageSize = "a4" -> <<Number(210), Number(297)>>
      [] pageSize = "letter" -> <<Literal(2159, 10), Literal(2794, 10)>>
      [] pageSize = "a3" -> <<Number(297), Number(420)>>
      [] pageSize = "a5" -> <<Number(148), Number(210)>>

PageWidth(pageSize, orientation) ==
    IF orientation = "portrait" THEN PageFormat(pageSize)[1] ELSE PageFormat(pageSize)[2]

PageHeight(pageSize, orientation) ==
    IF orientation = "portrait" THEN PageFormat(pageSize)[2] ELSE PageFormat(pageSize)[1]

ImgDims == {50 * k : k \in 1..MaxImgSteps}

GeomInputs ==
    [imgWidth : ImgDims, imgHeight : ImgDims, pageSize : PageSizes,
     orientation : Orientations, imageFit : ImageFits]

NoPlacement == [width |-> Num(0), height |-> Num(0), x |-> Num(0), y |-> Num(0)]

AlertSelect == "Please select at least one valid PNG, JPG, or WebP file."
AlertLibrary == "PDF generation library is not loaded. Please check your internet connection and try again."
AlertError == "An error occurred during conversion. Please try again."

VARIABLES
    status,      \* AppStatus
    files,       \* File[]: sequence of [id, type]
    options,     \* ConversionOptions
    pdfBlobUrl,  \* stored object URL, NoUrl for null
    jspdf,       \* window.jspdf is defined
    objectUrls,  \* the browser's blob store: live object URL -> document
    urlCount,    \* object URLs created so far
    pc,          \* position of the handleConvert call
    runFiles,    \* filteredFiles captured by the running handleConvert
    runOptions,  \* options captured by the running handleConvert
    i,           \* loop index of handleConvert, 1-based
    pdf,         \* the jsPDF document of the running handleConvert
    readLog,     \* the files handed to fileToBase64 by the running handleConvert
    skipped,     \* loop indexes the running handleConvert skipped (null context)
    geomIn,      \* arguments of a calculateImageDimensions call
    geomOut      \* the rectangle that call returned

vars == <<status, files, options, pdfBlobUrl, jspdf, objectUrls, urlCount,
          pc, runFiles, runOptions, i, pdf, readLog, skipped, geomIn, geomOut>>

session == <<status, files, options, pdfBlobUrl>>
browser == <<jspdf, objectUrls, urlCount>>
run == <<runFiles, runOptions, i, pdf, readLog, skipped>>
geom == <<geomIn, geomOut>>

\* ---- pure helpers ----
filteredFilesUnfiltered(fs) == fs

filteredFiles(fs) == SelectSeq(fs, LAMBDA f : f.type \in SupportedTypes)

RemoveAt(fs, indexToRemove) ==
    [k \in 1..(Len(fs) - (IF indexToRemove \in 1..Len(fs) THEN 1 ELSE 0)) |->
        IF k < indexToRemove THEN fs[k] ELSE fs[k + 1]]

NewFiles(prev, types) ==
    [k \in 1..Len(types) |-> [id |-> Len(prev) + k, type |-> types[k]]]

\* a drop is ignored when empty (handleDrop) and a fresh file input fires
\* change only for a non-empty choice
TypeSeqs == UNION {[1..n -> FileTypes] : n \in 1..MaxFiles}

NewPdf(opts) ==
    [orientation |-> opts.orientation, format |-> opts.pageSize,
     pages |-> <<[addedFor |-> 0, images |-> <<>>]>>]

addPage(doc, k) ==
    [doc EXCEPT !.pages = Append(@, [addedFor |-> k, images |-> <<>>])]

addImageFirstPage(doc, img) ==
    [doc EXCEPT !.pages[1].images = Append(@, img)]

addImage(doc, img) ==
    [doc EXCEPT !.pages[Len(doc.pages)].images = Append(@, img)]

createObjectURL(store, url, blob) ==
    [u \in DOMAIN store \cup {url} |-> IF u = url THEN blob ELSE store[u]]

revokeObjectURL(store, url) ==
    [u \in DOMAIN store \ {url} |-> store[u]]

ImageFormat(type) == IF type = "image/jpeg" THEN "JPEG" ELSE "PNG"

Running == pc \in {"read", "webp", "decode"}
AlertShown == pc \in {"alertSelect", "alertLibrary", "alertError"}
\* alert() is modal: no handler runs while it is open
Interactive == ~AlertShown

RenderedViewNoLoading ==
    CASE status = "IDLE" -> "FileUploader"
      [] status = "FILES_SELECTED" -> "FilesSection"
      [] status = "CONVERTING" -> "FilesSection"
      [] status = "SUCCESS" -> "SuccessSection"

RenderedView ==
    CASE status = "IDLE" -> "FileUploader"
      [] status = "FILES_SELECTED" -> "FilesSection"
      [] status = "CONVERTING" -> "LoadingSection"
      [] status = "SUCCESS" -> "SuccessSection"

\* ---- initial state ----
Init ==
    /\ status = "IDLE"
    /\ files = <<>>
    /\ options = DefaultOptions
    /\ pdfBlobUrl = NoUrl
    /\ jspdf = FALSE
    /\ objectUrls = <<>>
    /\ urlCount = 0
    /\ pc = "idle"
    /\ runFiles = <<>>
    /\ runOptions = DefaultOptions
    /\ i = 0
    /\ pdf = NoPdf
    /\ readLog = <<>>
    /\ skipped = {}
    /\ geomIn = NoCall
    /\ geomOut = NoPlacement

\* ---- environment: the CDN script defines window.jspdf; scripts do not run
\* while alert() blocks the thread ----
ScriptLoaded ==
    /\ ~AlertShown
    /\ ~jspdf
    /\ jspdf' = TRUE
    /\ UNCHANGED <<session, objectUrls, urlCount, pc, run, geom>>

\* ---- handlers ----
handleFilesAdded ==
    /\ Interactive
    /\ RenderedView = "FileUploader"
    /\ \E types \in TypeSeqs :
          files' = files \o NewFiles(files, types)
    /\ status' = "FILES_SELECTED"
    /\ UNCHANGED <<options, pdfBlobUrl, browser, pc, run, geom>>

handleRemoveFileStaleLength ==
    /\ Interactive
    /\ RenderedView = "FilesSection"
    /\ \E indexToRemove \in 1..Len(filteredFiles(files)) :
          LET updatedFiles == RemoveAt(files, indexToRemove) IN
          /\ files' = updatedFiles
          /\ status' = IF Len(files) = 0 THEN "IDLE" ELSE status
    /\ UNCHANGED <<options, pdfBlobUrl, browser, pc, run, geom>>

handleRemoveFile ==
    /\ Interactive
    /\ RenderedView = "FilesSection"
    /\ \E indexToRemove \in 1..Len(filteredFiles(files)) :
          LET updatedFiles == RemoveAt(files, indexToRemove) IN
          /\ files' = updatedFiles
          /\ status' = IF Len(updatedFiles) = 0 THEN "IDLE" ELSE status
    /\ UNCHANGED <<options, pdfBlobUrl, browser, pc, run, geom>>

handleOptionChange ==
    /\ Interactive
    /\ RenderedView = "FilesSection"
    /\ \E key \in OptionKeys : \E v \in OptionValues(key) :
          /\ options[key] # v
          /\ options' = [options EXCEPT ![key] = v]
    /\ UNCHANGED <<status, files, pdfBlobUrl, browser, pc, run, geom>>

handleResetNoRevoke ==
    /\ Interactive
    /\ RenderedView = "SuccessSection"
    /\ files' = <<>>
    /\ pdfBlobUrl' = NoUrl
    /\ status' = "IDLE"
    /\ UNCHANGED <<options, browser, pc, run, geom>>

handleResetKeepUrl ==
    /\ Interactive
    /\ RenderedView = "SuccessSection"
    /\ files' = <<>>
    /\ objectUrls' = IF pdfBlobUrl # NoUrl THEN revokeObjectURL(objectUrls, pdfBlobUrl)
                                         ELSE objectUrls
    /\ status' = "IDLE"
    /\ UNCHANGED <<options, pdfBlobUrl, jspdf, urlCount, pc, run, geom>>

handleReset ==
    /\ Interactive
    /\ RenderedView = "SuccessSection"
    /\ files' = <<>>
    /\ objectUrls' = IF pdfBlobUrl # NoUrl THEN revokeObjectURL(objectUrls, pdfBlobUrl)
                                         ELSE objectUrls
    /\ pdfBlobUrl' = NoUrl
    /\ status' = "IDLE"
    /\ UNCHANGED <<options, jspdf, urlCount, pc, run, geom>>

handleDownload ==
    /\ Interactive
    /\ RenderedView = "SuccessSection"
    /\ UNCHANGED vars

handleConvertNoLibraryCheck ==
    /\ Interactive
    /\ RenderedView = "FilesSection"
    /\ IF Len(filteredFiles(files)) = 0
         THEN /\ pc' = "alertSelect"
              /\ UNCHANGED <<session, browser, run, geom>>
         ELSE /\ urlCount < MaxUrls
              /\ status' = "CONVERTING"
              /\ runFiles' = filteredFiles(files)
              /\ runOptions' = options
              /\ pdf' = NewPdf(options)
              /\ i' = 1
              /\ readLog' = <<filteredFiles(files)[1]>>
              /\ skipped' = {}
              /\ pc' = "read"
              /\ UNCHANGED <<files, options, pdfBlobUrl, browser, geom>>

\* ---- handleConvert: the click, up to the first await ----
handleConvert ==
    /\ Interactive
    /\ RenderedView = "FilesSection"
    /\ IF Len(filteredFiles(files)) = 0
         THEN /\ pc' = "alertSelect"
              /\ UNCHANGED <<session, browser, run, geom>>
         ELSE IF ~jspdf
         THEN /\ pc' = "alertLibrary"
              /\ UNCHANGED <<session, browser, run, geom>>
         ELSE /\ urlCount < MaxUrls
              /\ status' = "CONVERTING"
              /\ runFiles' = filteredFiles(files)
              /\ runOptions' = options
              /\ pdf' = NewPdf(options)
              /\ i' = 1
              /\ readLog' = <<filteredFiles(files)[1]>>
              /\ skipped' = {}
              /\ pc' = "read"
              /\ UNCHANGED <<files, options, pdfBlobUrl, browser, geom>>

\* handleConvert returns: its locals are gone
Return ==
    /\ runFiles' = <<>>
    /\ runOptions' = DefaultOptions
    /\ i' = 0
    /\ pdf' = NoPdf
    /\ readLog' = <<>>
    /\ skipped' = {}

\* a rejected await: control enters the catch block, which alerts
Throw ==
    /\ pc' = "alertError"
    /\ UNCHANGED <<session, browser, run, geom>>

\* the end of one loop iteration: the next iteration up to its await, or,
\* after the last one, the lines that publish the document
NextIteration(doc, skip) ==
    IF i < Len(runFiles)
      THEN /\ i' = i + 1
           /\ skipped' = skip
           /\ pdf' = addPage(doc, i + 1)
           /\ readLog' = Append(readLog, runFiles[i + 1])
           /\ pc' = "read"
           /\ UNCHANGED <<session, browser, runFiles, runOptions, geom>>
      ELSE /\ urlCount' = urlCount + 1
           /\ objectUrls' = createObjectURL(objectUrls, urlCount + 1, doc)
           /\ pdfBlobUrl' = urlCount + 1
           /\ status' = "SUCCESS"
           /\ pc' = "idle"
           /\ Return
           /\ UNCHANGED <<files, options, jspdf, geom>>

\* await fileToBase64(file) settles
FileRead ==
    /\ pc = "read"
    /\ \E ok \in BOOLEAN :
          IF ~ok THEN Throw
          ELSE /\ pc' = IF runFiles[i].type = "image/webp" THEN "webp" ELSE "decode"
               /\ UNCHANGED <<session, browser, run, geom>>

\* await loadImage(imageData) of the WebP branch settles, then getContext
WebpLoaded ==
    /\ pc = "webp"
    /\ \E ok \in BOOLEAN, ctx \in BOOLEAN :
          IF ~ok THEN Throw
          ELSE IF ~ctx
          THEN NextIteration(pdf, skipped \cup {i})
          ELSE /\ pc' = "decode"
               /\ UNCHANGED <<session, browser, run, geom>>

\* await loadImage(imageData) settles, then addImage
ImageLoaded ==
    /\ pc = "decode"
    /\ \E ok \in BOOLEAN :
          IF ~ok THEN Throw
          ELSE NextIteration(addImage(pdf,
                      [file |-> runFiles[i].id,
                       format |-> ImageFormat(runFiles[i].type)]), skipped)

AlertDismissedToIdle ==
    /\ AlertShown
    /\ status' = IF pc = "alertError" THEN "IDLE" ELSE status
    /\ pc' = "idle"
    /\ Return
    /\ UNCHANGED <<files, options, pdfBlobUrl, browser, geom>>

AlertDismissedNoRevert ==
    /\ AlertShown
    /\ status' = status
    /\ pc' = "idle"
    /\ Return
    /\ UNCHANGED <<files, options, pdfBlobUrl, browser, geom>>

\* alert() returns
AlertDismissed ==
    /\ AlertShown
    /\ status' = IF pc = "alertError" THEN "FILES_SELECTED" ELSE status
    /\ pc' = "idle"
    /\ Return
    /\ UNCHANGED <<files, options, pdfBlobUrl, browser, geom>>

PipelineStep == FileRead \/ WebpLoaded \/ ImageLoaded \/ AlertDismissed

UserAction ==
    \/ handleFilesAdded
    \/ handleRemoveFile
    \/ handleOptionChange
    \/ handleConvert
    \/ handleDownload
    \/ handleReset

Next ==
    \/ ScriptLoaded
    \/ handleFilesAdded
    \/ handleRemoveFile
    \/ handleOptionChange
    \/ handleReset
    \/ handleDownload
    \/ handleConvert
    \/ FileRead
    \/ WebpLoaded
    \/ ImageLoaded
    \/ AlertDismissed

Spec == Init /\ [][Next]_vars

FairSpec == Spec /\ WF_vars(PipelineStep)

\* ---- calculateImageDimensions on its own: the call of line 599 for one
\* decoded image, one page and one fit mode ----
GeomInit ==
    /\ status = "IDLE"
    /\ files = <<>>
    /\ options = DefaultOptions
    /\ pdfBlobUrl = NoUrl
    /\ jspdf = FALSE
    /\ objectUrls = <<>>
    /\ urlCount = 0
    /\ pc = "idle"
    /\ runFiles = <<>>
    /\ runOptions = DefaultOptions
    /\ i = 0
    /\ pdf = NoPdf
    /\ readLog = <<>>
    /\ skipped = {}
    /\ geomIn \in GeomInputs
    /\ geomOut = NoPlacement

Calculate ==
    /\ geomIn # NoCall
    /\ geomOut = NoPlacement
    /\ geomOut' = calculateImageDimensions(
                      geomIn.imgWidth, geomIn.imgHeight,
                      PageWidth(geomIn.pageSize, geomIn.orientation),
                      PageHeight(geomIn.pageSize, geomIn.orientation),
                      geomIn.imageFit)
    /\ UNCHANGED <<session, browser, pc, run, geomIn>>

GeomNext == Calculate

GeomSpec == GeomInit /\ [][GeomNext]_vars

TypeOK ==
    /\ status \in {"IDLE", "FILES_SELECTED", "CONVERTING", "SUCCESS"}
    /\ pc \in {"idle", "alertSelect", "alertLibrary", "read", "webp", "decode",
               "alertError"}
    /\ options \in [pageSize : PageSizes, orientation : Orientations, imageFit : ImageFits]
    /\ pdfBlobUrl \in 0..MaxUrls

\* ---- helpers of the properties ----
Range(seq) == {seq[k] : k \in 1..Len(seq)}

PlacedFiles(doc) ==
    UNION {{doc.pages[p].images[k].file : k \in 1..Len(doc.pages[p].images)} :
           p \in 1..Len(doc.pages)}

Artifact == objectUrls[pdfBlobUrl]

\* C1: a run that ends in Success over N >= 1 filtered images stores a
\* document of exactly N pages, and every placed image lies on the page whose
\* number is the image's position in the filtered input sequence.
C1_PagesInInputOrder ==
    status = "SUCCESS" =>
        LET ff == filteredFiles(files) IN
        /\ Len(ff) >= 1
        /\ pdfBlobUrl \in DOMAIN objectUrls
        /\ Len(Artifact.pages) = Len(ff)
        /\ \A p \in 1..Len(Artifact.pages) :
              \A k \in 1..Len(Artifact.pages[p].images) :
                  Artifact.pages[p].images[k].file = ff[p].id

C1_Witness ==
    /\ status = "SUCCESS"
    /\ Len(filteredFiles(files)) = 3
    /\ Len(Artifact.pages[1].images) = 0
    /\ Len(Artifact.pages[2].images) = 1
    /\ Len(Artifact.pages[3].images) = 1

\* C2 (as claimed): for an image skipped because no drawing surface could be
\* obtained, no page is appended to the document and no image is placed.
C2_SkippedImageAppendsNoPage ==
    \A k \in skipped :
        /\ \A p \in 1..Len(pdf.pages) : pdf.pages[p].addedFor # k
        /\ runFiles[k].id \notin PlacedFiles(pdf)

\* C3: the status only changes along Idle -> FilesSelected, FilesSelected ->
\* Converting, Converting -> Success, Converting -> FilesSelected,
\* FilesSelected -> Idle, or to Idle by reset; and while the status is
\* Converting nothing but the pipeline changes files, options or status.
StatusTransitions ==
    {<<"IDLE", "FILES_SELECTED">>, <<"FILES_SELECTED", "CONVERTING">>,
     <<"CONVERTING", "SUCCESS">>, <<"CONVERTING", "FILES_SELECTED">>,
     <<"FILES_SELECTED", "IDLE">>}

C3_StatusMachine ==
    [][/\ status' # status =>
             \/ <<status, status'>> \in StatusTransitions
             \/ handleReset /\ status' = "IDLE"
       /\ status = "CONVERTING" =>
             /\ files' = files
             /\ options' = options
             /\ status' # status => pc \in {"read", "webp", "decode", "alertError"}
             /\ ~ENABLED UserAction]_vars

C3_Witness ==
    /\ status = "CONVERTING"
    /\ pc = "alertError"
    /\ urlCount >= 1
    /\ options # DefaultOptions

\* C4: a read or decode failure aborts the run: nothing after the failing
\* image has been read or placed, no object URL is created or stored, the
\* status goes from Converting to FilesSelected, and files and options are
\* what they were when convert started.
C4_FailureAborts ==
    /\ [](pc = "alertError" =>
            /\ status = "CONVERTING"
            /\ readLog = SubSeq(runFiles, 1, i)
            /\ PlacedFiles(pdf) \subseteq {runFiles[k].id : k \in 1..(i - 1)}
            /\ pdfBlobUrl = NoUrl
            /\ DOMAIN objectUrls = {}
            /\ filteredFiles(files) = runFiles
            /\ options = runOptions)
    /\ [][/\ pc = "alertError" =>
                /\ status' = "FILES_SELECTED"
                /\ ~Running'
                /\ readLog' = <<>>
                /\ UNCHANGED <<files, options, pdfBlobUrl, objectUrls, urlCount>>
          /\ Running => UNCHANGED <<files, options>>
          /\ (Running /\ (Running' \/ pc' = "alertError")) =>
                UNCHANGED <<runFiles, runOptions>>]_vars

C4_Witness ==
    /\ pc = "alertError"
    /\ Len(runFiles) = 3
    /\ i = 2
    /\ PlacedFiles(pdf) # {}

\* C5: convert starts only with a non-empty filtered selection and a loaded
\* document library; when a guard fails no document is created and status,
\* files, options and the stored URL stay as they are.
C5_ConvertGuards ==
    /\ [](pc \in {"alertSelect", "alertLibrary"} =>
            /\ status # "CONVERTING"
            /\ pdf = NoPdf
            /\ Len(filteredFiles(files)) = 0 \/ ~jspdf)
    /\ [][/\ (status # "CONVERTING" /\ status' = "CONVERTING") =>
                /\ Len(filteredFiles(files)) > 0
                /\ jspdf
          /\ (pc \in {"alertSelect", "alertLibrary"}
                \/ pc' \in {"alertSelect", "alertLibrary"}) =>
                /\ UNCHANGED <<status, files, options, pdfBlobUrl, objectUrls>>
                /\ pdf' = NoPdf
          /\ (status = "FILES_SELECTED" /\ pc = "idle" /\ pc' # pc
                /\ (Len(filteredFiles(files)) = 0 \/ ~jspdf)) =>
                pc' \in {"alertSelect", "alertLibrary"}]_vars

C5_Witness ==
    /\ pc = "alertLibrary"
    /\ status = "FILES_SELECTED"
    /\ Len(filteredFiles(files)) >= 1

\* C6: at most one object URL is unrevoked at any time, a run creates its URL
\* only when none is live, and after reset none is live and none is stored.
C6_SingleOwnerUrl ==
    /\ [](/\ Cardinality(DOMAIN objectUrls) <= 1
          /\ DOMAIN objectUrls \subseteq {pdfBlobUrl})
    /\ [][/\ urlCount' # urlCount => DOMAIN objectUrls = {}
          /\ (status = "SUCCESS" /\ status' = "IDLE") =>
                /\ DOMAIN objectUrls' = {}
                /\ pdfBlobUrl' = NoUrl]_vars

C6_Witness ==
    /\ status = "SUCCESS"
    /\ urlCount = 2
    /\ DOMAIN objectUrls = {2}

\* C7 (as claimed): an add-files action with no png, jpeg or webp file in it
\* leaves the status Idle.
C7_InvalidAddStaysIdle ==
    [][(status = "IDLE" /\ Len(filteredFiles(files')) = Len(filteredFiles(files)))
          => status' = "IDLE"]_vars

\* C8: in FilesSelected a remove moves the session to Idle exactly when it
\* removes the last file of the selection; otherwise the status stays
\* FilesSelected.
C8_RemoveLastGoesIdle ==
    [][(status = "FILES_SELECTED" /\ Len(files') < Len(files)) =>
          /\ Len(files') = Len(files) - 1
          /\ status' = "IDLE" <=> Len(files) = 1
          /\ Len(files') >= 1 => status' = "FILES_SELECTED"]_vars

C8_Witness ==
    /\ status = "IDLE"
    /\ urlCount = 0
    /\ options # DefaultOptions

\* C9: every file the pipeline reads, gives a page to or places is png, jpeg
\* or webp; a file of another kind in the selection is never read, never gets
\* a page and is never placed.
Unsupported == {f \in Range(files) : f.type \notin SupportedTypes}

C9_OnlySupportedKinds ==
    /\ \A f \in Range(readLog) \cup Range(runFiles) : f.type \in SupportedTypes
    /\ \A f \in Unsupported :
          /\ f \notin Range(readLog)
          /\ f.id \notin PlacedFiles(pdf)
          /\ status = "SUCCESS" => f.id \notin PlacedFiles(Artifact)
    /\ Running => Len(pdf.pages) <= Len(files) - Cardinality(Unsupported)
    /\ status = "SUCCESS" =>
          Len(Artifact.pages) = Len(files) - Cardinality(Unsupported)

C9_Witness ==
    /\ status = "SUCCESS"
    /\ Len(files) = 3
    /\ files[2].type = "image/gif"
    /\ Cardinality(PlacedFiles(Artifact)) = 2

\* C10: with every awaited call settling and every alert returning, a run
\* that started ends: Converting leads to Success or FilesSelected; and
\* outside Converting some user action is always possible.
C10_RunTerminates ==
    /\ (status = "CONVERTING") ~> (status \in {"SUCCESS", "FILES_SELECTED"})
    /\ [](status # "CONVERTING" => ENABLED (UserAction \/ AlertDismissed))

C10_Witness ==
    /\ status = "SUCCESS"
    /\ pc = "idle"
    /\ urlCount = 1
    /\ Len(filteredFiles(files)) = 2
    /\ ENABLED handleReset

\* C13 (as claimed): the Remove button of the k-th row of the file list, which
\* calls onRemoveFile(k), removes exactly the k-th shown file and leaves all
\* other selected files in place and in order.
WithoutFile(fs, f) == SelectSeq(fs, LAMBDA g : g # f)

C13_RemoveShownFile ==
    [][\A k \in 1..Len(filteredFiles(files)) :
          (status = "FILES_SELECTED" /\ Interactive /\ files' = RemoveAt(files, k)) =>
              files' = WithoutFile(files, filteredFiles(files)[k])]_vars

\* C14 (as claimed): in FilesSelected the selection always holds at least one
\* png, jpeg or webp file.
C14_FilesSelectedHasImage ==
    status = "FILES_SELECTED" => Len(filteredFiles(files)) >= 1

\* C15: the stored object URL is non-empty exactly when the status is Success,
\* and it is set in the step that makes the status Success.
C15_UrlIffSuccess ==
    /\ [](pdfBlobUrl # NoUrl <=> status = "SUCCESS")
    /\ [][(pdfBlobUrl' # pdfBlobUrl /\ pdfBlobUrl' # NoUrl) =>
              (status = "CONVERTING" /\ status' = "SUCCESS")]_vars

C15_Witness ==
    /\ status = "FILES_SELECTED"
    /\ pdfBlobUrl = NoUrl
    /\ urlCount = 1
    /\ pc = "idle"
    /\ Len(files) = 1

\* ---- helpers of the placement properties: exact arithmetic on the
\* numbers the call took and returned ----
Placed == geomOut # NoPlacement
GivenPageWidth == PageWidth(geomIn.pageSize, geomIn.orientation)
GivenPageHeight == PageHeight(geomIn.pageSize, geomIn.orientation)
ExactAvailableWidth == NSub(GivenPageWidth, Num(2 * margin))
ExactAvailableHeight == NSub(GivenPageHeight, Num(2 * margin))

\* the width is the one that fills the available width
WidthBound ==
    NLe(NMulInt(ExactAvailableWidth, geomIn.imgHeight),
        NMulInt(ExactAvailableHeight, geomIn.imgWidth))

\* x and y differ by at most 2^-51 of y: two roundings of binary64
Close(x, y) == NLe(NShift(NAbsDiff(x, y), 51), y)

FitExample ==
    (geomIn = [imgWidth |-> 800, imgHeight |-> 600, pageSize |-> "a4",
               orientation |-> "portrait", imageFit |-> "fit"]) =>
        /\ NEq(geomOut.width, Num(190))
        /\ NEq(NMulInt(geomOut.height, 2), Num(285))
        /\ NEq(geomOut.x, Num(10))
        /\ NEq(NMulInt(geomOut.y, 4), Num(309))

\* C11 (as claimed): in mode fit, width = imgWidth*s and height = imgHeight*s
\* for s = min((pageWidth-20)/imgWidth, (pageHeight-20)/imgHeight), so that
\* width*imgHeight = height*imgWidth, and x = (pageWidth-width)/2,
\* y = (pageHeight-height)/2; 800x600 on 210x297 gives 190, 142.5, 10, 77.25.
C11_FitExact ==
    (Placed /\ geomIn.imageFit = "fit") =>
        /\ NEq(NMulInt(geomOut.width, geomIn.imgHeight),
               NMulInt(geomOut.height, geomIn.imgWidth))
        /\ IF WidthBound
             THEN /\ NEq(geomOut.width, ExactAvailableWidth)
                  /\ NEq(NMulInt(geomOut.height, geomIn.imgWidth),
                         NMulInt(ExactAvailableWidth, geomIn.imgHeight))
             ELSE /\ NEq(geomOut.height, ExactAvailableHeight)
                  /\ NEq(NMulInt(geomOut.width, geomIn.imgHeight),
                         NMulInt(ExactAvailableHeight, geomIn.imgWidth))
        /\ NEq(NMulInt(geomOut.x, 2), NSub(GivenPageWidth, geomOut.width))
        /\ NEq(NMulInt(geomOut.y, 2), NSub(GivenPageHeight, geomOut.height))
        /\ FitExample

\* C11 (amended): the same equations hold up to the rounding of the
\* floating-point operations, that is within a relative error of 2^-51; the
\* 800x600 example holds exactly.
C11_FitWithinRounding ==
    (Placed /\ geomIn.imageFit = "fit") =>
        /\ Close(NMulInt(geomOut.width, geomIn.imgHeight),
                 NMulInt(geomOut.height, geomIn.imgWidth))
        /\ IF WidthBound
             THEN /\ Close(geomOut.width, ExactAvailableWidth)
                  /\ Close(NMulInt(geomOut.height, geomIn.imgWidth),
                           NMulInt(ExactAvailableWidth, geomIn.imgHeight))
             ELSE /\ Close(geomOut.height, ExactAvailableHeight)
                  /\ Close(NMulInt(geomOut.width, geomIn.imgHeight),
                           NMulInt(ExactAvailableHeight, geomIn.imgWidth))
        /\ Close(NMulInt(geomOut.x, 2), NSub(GivenPageWidth, geomOut.width))
        /\ Close(NMulInt(geomOut.y, 2), NSub(GivenPageHeight, geomOut.height))
        /\ FitExample

C11_Witness ==
    /\ Placed
    /\ geomIn.imageFit = "fit"
    /\ geomIn.imgWidth = 100
    /\ geomIn.imgHeight = 300
    /\ ~NEq(NMulInt(geomOut.width, geomIn.imgHeight),
            NMulInt(geomOut.height, geomIn.imgWidth))

InsidePage ==
    /\ NLe(NAdd(geomOut.x, geomOut.width), GivenPageWidth)
    /\ NLe(NAdd(geomOut.y, geomOut.height), GivenPageHeight)

FillsAvailableArea ==
    /\ NEq(geomOut.x, Num(margin))
    /\ NEq(geomOut.y, Num(margin))
    /\ NEq(geomOut.width, ExactAvailableWidth)
    /\ NEq(geomOut.height, ExactAvailableHeight)

\* C12 (as claimed): in modes fit and original x + width <= pageWidth,
\* y + height <= pageHeight, width <= pageWidth-20 and height <= pageHeight-20;
\* in mode fill the rectangle is (10, 10, pageWidth-20, pageHeight-20).
C12_PlacementInsideMargins ==
    Placed =>
        /\ geomIn.imageFit \in {"fit", "original"} =>
              /\ InsidePage
              /\ NLe(geomOut.width, ExactAvailableWidth)
              /\ NLe(geomOut.height, ExactAvailableHeight)
        /\ geomIn.imageFit = "fill" => FillsAvailableArea

\* C12 (amended): in modes fit and original x + width <= pageWidth and
\* y + height <= pageHeight; in mode original width <= pageWidth-20 and
\* height <= pageHeight-20; in mode fit width and height exceed pageWidth-20
\* and pageHeight-20 by at most a relative 2^-51; in mode fill the rectangle
\* is (10, 10, pageWidth-20, pageHeight-20).
C12_PlacementInsidePage ==
    Placed =>
        /\ geomIn.imageFit \in {"fit", "original"} => InsidePage
        /\ geomIn.imageFit = "original" =>
              /\ NLe(geomOut.width, ExactAvailableWidth)
              /\ NLe(geomOut.height, ExactAvailableHeight)
        /\ geomIn.imageFit = "fit" =>
              /\ NLe(geomOut.width, ExactAvailableWidth)
                    \/ Close(geomOut.width, ExactAvailableWidth)
              /\ NLe(geomOut.height, ExactAvailableHeight)
                    \/ Close(geomOut.height, ExactAvailableHeight)
        /\ geomIn.imageFit = "fill" => FillsAvailableArea

C12_Witness ==
    /\ Placed
    /\ geomIn.imageFit = "fit"
    /\ InsidePage
    /\ ~NLe(geomOut.width, ExactAvailableWidth)

====
